---- MODULE Spec2Model ----
(***************************************************************************)
(* A model of src/bg_generator.py: the segmenter parse_bgs_from_file and   *)
(* the incremental pipeline generate_bg_documents with its tracking file.  *)
(* A text is a sequence of one-character strings.                          *)
(***************************************************************************)
EXTENDS Naturals, Sequences, FiniteSets, TLC

VARIABLES
    dir_exists,     \* the output directory exists on disk
    docs,           \* the documents of the output directory: filename -> document
    tracker_file,   \* .bg_tracker.json: [bytes, data]
    pc,             \* position of the program
    content,        \* the text of the input file
    bgs,            \* generate_bg_documents: the records parse_bgs_from_file returned
    processed_bgs,  \* generate_bg_documents: the tracker state in memory
    new_bgs,        \* generate_bg_documents: the (bg, bg_hash) pairs to render
    skipped_count,  \* generate_bg_documents: the records already processed
    next_index,     \* generate_bg_documents: the filename counter
    pos,            \* generate_bg_documents: position of the render loop in new_bgs
    status,         \* the last message the program printed
    runs,           \* history: invocations of the program so far
    faults,         \* history: injected I/O failures so far
    pre,            \* history: the disk when the current invocation started
    loaded,         \* history: what load_processed_bgs returned in this run
    attempts,       \* history: the render attempts of this run, in order
    result,         \* history: how the latest run of the pipeline ended
    readable,       \* history: the tracking file could be read in this run
    last,           \* history: the previous invocation
    history         \* history: of all invocations so far

vars == <<dir_exists, docs, tracker_file, pc, content, bgs, processed_bgs, new_bgs,
          skipped_count, next_index, pos, status, runs, faults, pre, loaded,
          attempts, result, readable, last, history>>

(***************************************************************************)
(* Characters and strings                                                  *)
(***************************************************************************)

NL == "\n"

Dash == "-"

\* str -> sequence of characters, for the literals the model needs
DashRule == <<Dash, Dash, Dash>>

\* Python's \s, on the characters of the model
IsSpace(c) == c \in {" ", NL}

\* Python's \d
IsDigit(c) == c \in {"0", "1", "2", "3", "4", "5", "6", "7", "8", "9"}

\* first position >= i of s that holds no whitespace (Len(s) + 1 when none)
RECURSIVE SkipSpace(_, _)
SkipSpace(s, i) ==
    IF i <= Len(s) /\ IsSpace(s[i]) THEN SkipSpace(s, i + 1) ELSE i

\* last position <= j of s that holds no whitespace (0 when none)
RECURSIVE SkipSpaceBack(_, _)
SkipSpaceBack(s, j) ==
    IF j >= 1 /\ IsSpace(s[j]) THEN SkipSpaceBack(s, j - 1) ELSE j

\* str.strip()
strip(s) == SubSeq(s, SkipSpace(s, 1), SkipSpaceBack(s, Len(s)))

\* [x.strip() for x in pieces if x.strip()]
RECURSIVE StripNonEmpty(_)
StripNonEmpty(pieces) ==
    IF pieces = <<>> THEN <<>>
    ELSE LET t == strip(Head(pieces))
         IN  (IF t = <<>> THEN <<>> ELSE <<t>>) \o StripNonEmpty(Tail(pieces))

\* [x.strip() for x in pieces]
StripAll(pieces) == [n \in 1..Len(pieces) |-> strip(pieces[n])]

(***************************************************************************)
(* The regular expressions of parse_bgs_from_file                          *)
(***************************************************************************)

\* the shortest run of dashes that r'---+' matches
DashMin == 3

\* first position >= i of s that holds no dash
RECURSIVE DashRunEnd(_, _)
DashRunEnd(s, i) ==
    IF i <= Len(s) /\ s[i] = Dash THEN DashRunEnd(s, i + 1) ELSE i

\* r'-{n,}' matches at position i of s
DashMatchAt(s, i, n) == DashRunEnd(s, i) - i >= n

\* re.search(r'-{n,}', s)
DashSearch(s, n) == \E i \in 1..Len(s) : DashMatchAt(s, i, n)

\* re.split(r'-{n,}', s): leftmost matches, each greedy
RECURSIVE DashSplitFrom(_, _, _, _)
DashSplitFrom(s, n, i, start) ==
    IF i > Len(s) THEN <<SubSeq(s, start, Len(s))>>
    ELSE IF DashMatchAt(s, i, n)
         THEN <<SubSeq(s, start, i - 1)>>
              \o DashSplitFrom(s, n, DashRunEnd(s, i), DashRunEnd(s, i))
         ELSE DashSplitFrom(s, n, i + 1, start)

DashSplit(s, n) == DashSplitFrom(s, n, 1, 1)

\* '^' under re.MULTILINE at position i (before the character s[i])
LineStart(s, i) == i = 1 \/ s[i - 1] = NL

\* '$' under re.MULTILINE at position i
LineEnd(s, i) == i = Len(s) + 1 \/ s[i] = NL

\* first position >= i of s that holds no digit
RECURSIVE DigitsEnd(_, _)
DigitsEnd(s, i) ==
    IF i <= Len(s) /\ IsDigit(s[i]) THEN DigitsEnd(s, i + 1) ELSE i

\* r'\d+\.' at position i: the position after the period, 0 when it does not match
MarkerEnd(s, i) ==
    LET d == DigitsEnd(s, i)
    IN  IF d > i /\ d <= Len(s) /\ s[d] = "." THEN d + 1 ELSE 0

\* the lookahead (?=^\d+\.|$) at position i
ClauseStop(s, i) ==
    (LineStart(s, i) /\ MarkerEnd(s, i) # 0) \/ LineEnd(s, i)

\* the lazy (.+?): the first position r > q at which the lookahead holds
RECURSIVE LazyEnd(_, _)
LazyEnd(s, r) == IF ClauseStop(s, r) THEN r ELSE LazyEnd(s, r + 1)

\* r'^\d+\.\s+(.+?)(?=^\d+\.|$)' at position i: <<start, end>> of group 1 (the
\* match ends where the group ends), <<0, 0>> when it does not match. \s+ is
\* greedy and gives one character back when it has run to the end of the text.
ClauseMatchAt(s, i) ==
    LET m == IF LineStart(s, i) THEN MarkerEnd(s, i) ELSE 0
        w == SkipSpace(s, m)
    IN  IF m = 0 \/ w = m THEN <<0, 0>>
        ELSE IF w <= Len(s) THEN <<w, LazyEnd(s, w + 1) - 1>>
        ELSE IF w - m >= 2 THEN <<Len(s), Len(s)>>
        ELSE <<0, 0>>

\* re.findall of that pattern (one group: the list of the groups)
RECURSIVE ClauseFindFrom(_, _)
ClauseFindFrom(s, i) ==
    IF i > Len(s) THEN <<>>
    ELSE LET g == ClauseMatchAt(s, i)
         IN  IF g[1] = 0 THEN ClauseFindFrom(s, i + 1)
             ELSE <<SubSeq(s, g[1], g[2])>> \o ClauseFindFrom(s, g[2] + 1)

ClauseFindAll(s) == ClauseFindFrom(s, 1)

\* last position of a newline in the whitespace run s[i..], 0 when none
RECURSIVE LastNewline(_, _, _)
LastNewline(s, i, found) ==
    IF i <= Len(s) /\ IsSpace(s[i])
    THEN LastNewline(s, i + 1, IF s[i] = NL THEN i ELSE found)
    ELSE found

\* r'\n\s*\n+' at position i: the position after the match, 0 when it does not match
BlankMatchEnd(s, i) ==
    IF s[i] # NL THEN 0
    ELSE LET j == LastNewline(s, i + 1, 0) IN IF j = 0 THEN 0 ELSE j + 1

\* re.split(r'\n\s*\n+', s)
RECURSIVE BlankSplitFrom(_, _, _)
BlankSplitFrom(s, i, start) ==
    IF i > Len(s) THEN <<SubSeq(s, start, Len(s))>>
    ELSE LET e == BlankMatchEnd(s, i)
         IN  IF e # 0
             THEN <<SubSeq(s, start, i - 1)>> \o BlankSplitFrom(s, e, e)
             ELSE BlankSplitFrom(s, i + 1, start)

BlankSplit(s) == BlankSplitFrom(s, 1, 1)

(***************************************************************************)
(* parse_bgs_from_file                                                     *)
(***************************************************************************)

\* the dash branch: the stripped non-empty pieces of the split
DashPieces(s) == StripNonEmpty(DashSplit(s, DashMin))

\* the numbered-clause branch
ClausePieces(s) == StripAll(ClauseFindAll(s))

\* the blank-line fallback
BlankPieces(s) == StripNonEmpty(BlankSplit(s))

\* a plausible slip: the numbered clauses are tried before the dash separators
parse_bgs_numbered_first(s) ==
    IF Len(ClauseFindAll(s)) > 1 THEN ClausePieces(s)
    ELSE IF DashSearch(s, DashMin) /\ Len(DashPieces(s)) > 1 THEN DashPieces(s)
    ELSE BlankPieces(s)

\* a variant in which a run of dashes anywhere commits to the dash split
parse_bgs_dash_absolute(s) ==
    IF DashSearch(s, DashMin) THEN DashPieces(s)
    ELSE IF Len(ClauseFindAll(s)) > 1 THEN ClausePieces(s)
    ELSE BlankPieces(s)

parse_bgs_from_file(s) ==
    IF DashSearch(s, DashMin) /\ Len(DashPieces(s)) > 1 THEN DashPieces(s)
    ELSE IF Len(ClauseFindAll(s)) > 1 THEN ClausePieces(s)
    ELSE BlankPieces(s)

(***************************************************************************)
(* The tracker: fingerprints, filenames, the tracking file                 *)
(***************************************************************************)

\* hashlib.md5(bg_text.encode()).hexdigest(): the digest of the text, taken to be
\* free of collisions (distinct texts have distinct digests)
get_bg_hash(bg_text) == <<"md5", bg_text>>

DigitChars == <<"0", "1", "2", "3", "4", "5", "6", "7", "8", "9">>

\* str(n) for n >= 0
RECURSIVE Decimal(_)
Decimal(n) ==
    IF n < 10 THEN <<DigitChars[n + 1]>>
    ELSE Decimal(n \div 10) \o <<DigitChars[(n % 10) + 1]>>

\* f"{n:03d}": at least three digits, padded with zeros on the left
RECURSIVE ZeroPad(_, _)
ZeroPad(digits, width) ==
    IF Len(digits) >= width THEN digits ELSE ZeroPad(<<"0">> \o digits, width)

\* f"BG_{next_index:03d}.docx"
Filename(n) ==
    <<"B", "G", "_">> \o ZeroPad(Decimal(n), 3) \o <<".", "d", "o", "c", "x">>

\* the dictionary with no key
EmptyDict == <<>>

\* len(d)
DictLen(d) == Cardinality(DOMAIN d)

\* the tracking file when it does not exist
NoFile == [bytes |-> "absent", data |-> EmptyDict]

\* the tracking file holding all of json.dump(d)
CompleteFile(d) == [bytes |-> "complete", data |-> d]

\* the tracking file holding only a strict prefix of json.dump(d): no JSON value
TruncatedFile(d) == [bytes |-> "truncated", data |-> d]

\* a slip: what was written of a damaged file is returned
load_processed_bgs_salvaging(file, can_read) ==
    IF file.bytes = "absent" THEN EmptyDict ELSE file.data

\* load_processed_bgs: can_read is whether open() and read() succeed
load_processed_bgs(file, can_read) ==
    IF file.bytes = "absent" THEN EmptyDict
    ELSE IF can_read /\ file.bytes = "complete" THEN file.data
    ELSE EmptyDict

\* create_word_document: the document doc.save writes
Document(bg_text) == [title |-> "Background", text |-> bg_text, complete |-> TRUE]

\* what a failed doc.save may leave at the path
PartialDocument == [title |-> "", text |-> <<>>, complete |-> FALSE]

\* a slip: the new entry is not kept
RecordProcessedNot(state, bg_hash, filename) == state

\* processed_bgs[bg_hash] = {"filename": ..., "hash": bg_hash}
RecordProcessed(state, bg_hash, filename) ==
    (bg_hash :> [filename |-> filename, hash |-> bg_hash]) @@ state

\* a slip: the counter starts at 1 in every run
NextIndexSeedFirst(state) == 1

\* next_index = len(processed_bgs) + 1
NextIndexSeed(state) == DictLen(state) + 1

\* a variant that also tests each record against the records before it
RECURSIVE NewBgsOnce(_, _)
NewBgsOnce(records, state) ==
    IF records = <<>> THEN <<>>
    ELSE LET bg == Head(records)
             bg_hash == get_bg_hash(bg)
         IN  (IF bg_hash \in DOMAIN state THEN <<>> ELSE <<<<bg, bg_hash>>>>)
             \o NewBgsOnce(Tail(records), (bg_hash :> bg) @@ state)

\* the new_bgs loop: the (bg, bg_hash) pairs whose hash is not in the state
RECURSIVE NewBgs(_, _)
NewBgs(records, state) ==
    IF records = <<>> THEN <<>>
    ELSE LET bg == Head(records)
             bg_hash == get_bg_hash(bg)
         IN  (IF bg_hash \in DOMAIN state THEN <<>> ELSE <<<<bg, bg_hash>>>>)
             \o NewBgs(Tail(records), state)

\* the new_bgs loop: the count of the records whose hash is in the state
RECURSIVE SkippedCount(_, _)
SkippedCount(records, state) ==
    IF records = <<>> THEN 0
    ELSE (IF get_bg_hash(Head(records)) \in DOMAIN state THEN 1 ELSE 0)
         + SkippedCount(Tail(records), state)

(***************************************************************************)
(* Bounds and inputs                                                       *)
(***************************************************************************)

\* records in an input file written from scratch
MaxRecords == 2

\* invocations of the program
MaxRuns == 2

\* I/O failures injected over a behaviour
MaxFaults == 1

\* tokens in a text given to the segmenter alone
MaxTokens == 5
MaxLines == 3

RecordTexts == {<<"a">>, <<"b">>}

\* the records joined by a line of three dashes
RECURSIVE JoinDash(_)
JoinDash(records) ==
    IF records = <<>> THEN <<>>
    ELSE IF Len(records) = 1 THEN records[1]
    ELSE records[1] \o DashRule \o JoinDash(Tail(records))

RecordLists(n) == UNION {[1..k -> RecordTexts] : k \in 0..n}

\* the input files written from scratch
Inputs == {JoinDash(r) : r \in RecordLists(MaxRecords)}

\* the input file of the next invocation: one written from scratch, or the
\* previous one with one more record appended
InputsAfter(c) ==
    Inputs \cup (IF c = <<>> THEN {} ELSE {c \o DashRule \o r : r \in RecordTexts})

\* every input file a behaviour can hold
AllInputs == {JoinDash(r) : r \in RecordLists(MaxRecords + MaxRuns)}

\* parse_bgs_from_file on each input file
ParsedInputs == [c \in AllInputs |-> parse_bgs_from_file(c)]

Tokens == {<<"a">>, <<NL, "1", ".", " ">>, DashRule, <<Dash>>, <<" ">>, <<NL>>}

RECURSIVE Concat(_)
Concat(pieces) ==
    IF pieces = <<>> THEN <<>> ELSE Head(pieces) \o Concat(Tail(pieces))

\* the texts of up to MaxTokens tokens
TokenTexts == {Concat(t) : t \in UNION {[1..n -> Tokens] : n \in 0..MaxTokens}}

\* the lines of a numbered text: a clause, a line without a marker, an empty
\* line, a marker followed by whitespace only, a line of one space
Lines == {<<"1", ".", " ", "a">>, <<"a">>, <<>>, <<"1", ".", " ", " ">>, <<" ">>}

\* the lines joined by newlines
RECURSIVE JoinLines(_)
JoinLines(lines) ==
    IF lines = <<>> THEN <<>>
    ELSE IF Len(lines) = 1 THEN lines[1]
    ELSE lines[1] \o <<NL>> \o JoinLines(Tail(lines))

\* the texts of up to MaxLines lines
LineTexts == {JoinLines(l) : l \in UNION {[1..n -> Lines] : n \in 1..MaxLines}}

\* the texts of the segmenter
Texts == TokenTexts \cup LineTexts

(***************************************************************************)
(* The program                                                             *)
(***************************************************************************)

Disk == [dir_exists |-> dir_exists, docs |-> docs, tracker_file |-> tracker_file]

EmptyDisk == [dir_exists |-> FALSE, docs |-> EmptyDict, tracker_file |-> NoFile]

\* history of all invocations: the fingerprints in the order the pipeline first
\* segmented them and in the order it first rendered them, whether every load and
\* save of the tracking file succeeded, whether no input held a record twice
NoHistory == [seen |-> <<>>, rendered |-> <<>>, io_ok |-> TRUE, distinct |-> TRUE]

\* seq followed by the items not yet in it, in their order
RECURSIVE AppendNew(_, _)
AppendNew(seq, items) ==
    IF items = <<>> THEN seq
    ELSE AppendNew(IF \E i \in DOMAIN seq : seq[i] = Head(items)
                   THEN seq ELSE Append(seq, Head(items)),
                   Tail(items))

NoRun == [ran |-> FALSE, content |-> <<>>, attempts |-> <<>>, result |-> "none",
          pre |-> EmptyDisk]

Init ==
    /\ dir_exists = FALSE
    /\ docs = EmptyDict
    /\ tracker_file = NoFile
    /\ pc = "idle"
    /\ content = <<>>
    /\ bgs = <<>>
    /\ processed_bgs = EmptyDict
    /\ new_bgs = <<>>
    /\ skipped_count = 0
    /\ next_index = 0
    /\ pos = 0
    /\ status = "none"
    /\ result = "none"
    /\ readable = TRUE
    /\ runs = 0
    /\ faults = 0
    /\ pre = EmptyDisk
    /\ loaded = EmptyDict
    /\ attempts = <<>>
    /\ last = NoRun
    /\ history = NoHistory

\* a slip: the output directory is made before the input file is looked for
MainInputMissingMkdir ==
    /\ pc = "idle"
    /\ runs < MaxRuns
    /\ status' = "input_missing"
    /\ runs' = runs + 1
    /\ pre' = Disk
    /\ dir_exists' = TRUE
    /\ UNCHANGED <<docs, tracker_file, pc, content, bgs, processed_bgs,
                   new_bgs, skipped_count, next_index, pos, result, readable, faults,
                   loaded, attempts, last, history>>

\* __main__ when the input file does not exist: two messages, nothing else
MainInputMissing ==
    /\ pc = "idle"
    /\ runs < MaxRuns
    /\ status' = "input_missing"
    /\ runs' = runs + 1
    /\ pre' = Disk
    /\ UNCHANGED <<dir_exists, docs, tracker_file, pc, content, bgs, processed_bgs,
                   new_bgs, skipped_count, next_index, pos, result, readable, faults,
                   loaded, attempts, last, history>>

\* __main__ with the input file c present: generate_bg_documents up to the render
\* loop (mkdir, load, parse, classify and the two early returns); can_read is
\* whether the tracking file can be opened and read
Start(c, can_read) ==
    /\ pc = "idle"
    /\ runs < MaxRuns
    /\ can_read \/ (tracker_file.bytes = "complete" /\ faults < MaxFaults)
    /\ LET state == load_processed_bgs(tracker_file, can_read)
           records == ParsedInputs[c]
           new == NewBgs(records, state)
       IN  /\ dir_exists' = TRUE
           /\ content' = c
           /\ bgs' = records
           /\ processed_bgs' = state
           /\ loaded' = state
           /\ IF records = <<>>
              THEN /\ new_bgs' = <<>>
                   /\ skipped_count' = 0
                   /\ next_index' = 0
                   /\ pos' = 0
                   /\ pc' = "idle"
                   /\ status' = "no_bgs"
                   /\ result' = "no_bgs"
              ELSE /\ new_bgs' = new
                   /\ skipped_count' = SkippedCount(records, state)
                   /\ next_index' = NextIndexSeed(state)
                   /\ pos' = 1
                   /\ pc' = IF new = <<>> THEN "idle" ELSE "render"
                   /\ status' = IF new = <<>> THEN "all_processed" ELSE "generating"
                   /\ result' = IF new = <<>> THEN "all_processed" ELSE "running"
    /\ readable' = can_read
    /\ runs' = runs + 1
    /\ faults' = IF can_read THEN faults ELSE faults + 1
    /\ pre' = Disk
    /\ attempts' = <<>>
    /\ last' = [ran |-> result # "none", content |-> content, attempts |-> attempts,
                result |-> result, pre |-> pre]
    /\ history' = [history EXCEPT
           !.seen = AppendNew(@, [i \in DOMAIN ParsedInputs[c] |->
                                     get_bg_hash(ParsedInputs[c][i])]),
           !.io_ok = @ /\ can_read /\ tracker_file.bytes # "truncated",
           !.distinct = @ /\ \A i, j \in DOMAIN ParsedInputs[c] :
                                 ParsedInputs[c][i] = ParsedInputs[c][j] => i = j]
    /\ UNCHANGED <<docs, tracker_file>>

\* a slip: the counter stays where it is after a rendered record
RenderOkNotCounting ==
    /\ pc = "render"
    /\ LET bg == new_bgs[pos][1]
           bg_hash == new_bgs[pos][2]
           filename == Filename(next_index)
       IN  /\ docs' = (filename :> Document(bg)) @@ docs
           /\ processed_bgs' = RecordProcessed(processed_bgs, bg_hash, filename)
           /\ attempts' = Append(attempts,
                  [hash |-> bg_hash, filename |-> filename, ok |-> TRUE])
           /\ history' = [history EXCEPT !.rendered = AppendNew(@, <<bg_hash>>)]
    /\ next_index' = next_index
    /\ pos' = pos + 1
    /\ pc' = IF pos = Len(new_bgs) THEN "save" ELSE "render"
    /\ status' = "created"
    /\ UNCHANGED <<dir_exists, tracker_file, content, bgs, new_bgs, skipped_count,
                   result, readable, runs, faults, pre, loaded, last>>

\* the render loop, create_word_document succeeding
RenderOk ==
    /\ pc = "render"
    /\ LET bg == new_bgs[pos][1]
           bg_hash == new_bgs[pos][2]
           filename == Filename(next_index)
       IN  /\ docs' = (filename :> Document(bg)) @@ docs
           /\ processed_bgs' = RecordProcessed(processed_bgs, bg_hash, filename)
           /\ attempts' = Append(attempts,
                  [hash |-> bg_hash, filename |-> filename, ok |-> TRUE])
           /\ history' = [history EXCEPT !.rendered = AppendNew(@, <<bg_hash>>)]
    /\ next_index' = next_index + 1
    /\ pos' = pos + 1
    /\ pc' = IF pos = Len(new_bgs) THEN "save" ELSE "render"
    /\ status' = "created"
    /\ UNCHANGED <<dir_exists, tracker_file, content, bgs, new_bgs, skipped_count,
                   result, readable, runs, faults, pre, loaded, last>>

\* a slip: the counter advances on a failed record too
RenderFailCounting(partial) ==
    /\ pc = "render"
    /\ faults < MaxFaults
    /\ LET bg_hash == new_bgs[pos][2]
           filename == Filename(next_index)
       IN  /\ docs' = IF partial THEN (filename :> PartialDocument) @@ docs ELSE docs
           /\ attempts' = Append(attempts,
                  [hash |-> bg_hash, filename |-> filename, ok |-> FALSE])
    /\ pos' = pos + 1
    /\ next_index' = next_index + 1
    /\ pc' = IF pos = Len(new_bgs) THEN "save" ELSE "render"
    /\ status' = "error_creating"
    /\ faults' = faults + 1
    /\ UNCHANGED <<dir_exists, tracker_file, content, bgs, processed_bgs, new_bgs,
                   skipped_count, result, readable, runs, pre, loaded, last, history>>

\* the render loop, create_word_document raising: the error is printed and the
\* loop goes on; doc.save may have left a partial file at the path
RenderFail(partial) ==
    /\ pc = "render"
    /\ faults < MaxFaults
    /\ LET bg_hash == new_bgs[pos][2]
           filename == Filename(next_index)
       IN  /\ docs' = IF partial THEN (filename :> PartialDocument) @@ docs ELSE docs
           /\ attempts' = Append(attempts,
                  [hash |-> bg_hash, filename |-> filename, ok |-> FALSE])
    /\ pos' = pos + 1
    /\ pc' = IF pos = Len(new_bgs) THEN "save" ELSE "render"
    /\ status' = "error_creating"
    /\ faults' = faults + 1
    /\ UNCHANGED <<dir_exists, tracker_file, content, bgs, processed_bgs, new_bgs,
                   skipped_count, next_index, result, readable, runs, pre, loaded,
                   last, history>>

\* save_processed_bgs: open(tracking_file, 'w') truncates the file
SaveOpen ==
    /\ pc = "save"
    /\ tracker_file' = TruncatedFile(EmptyDict)
    /\ pc' = "dump"
    /\ UNCHANGED <<dir_exists, docs, content, bgs, processed_bgs, new_bgs,
                   skipped_count, next_index, pos, status, result, readable, runs,
                   faults, pre, loaded, attempts, last, history>>

\* save_processed_bgs: open() raises, the file is as it was and the run ends
SaveOpenFail ==
    /\ pc = "save"
    /\ faults < MaxFaults
    /\ pc' = "idle"
    /\ status' = "save_error"
    /\ result' = "save_failed"
    /\ faults' = faults + 1
    /\ UNCHANGED <<dir_exists, docs, tracker_file, content, bgs, processed_bgs,
                   new_bgs, skipped_count, next_index, pos, readable, runs, pre,
                   loaded, attempts, last>>
    /\ history' = [history EXCEPT !.io_ok = FALSE]

\* save_processed_bgs: json.dump writes the whole mapping; the summary is printed
SaveDump ==
    /\ pc = "dump"
    /\ tracker_file' = CompleteFile(processed_bgs)
    /\ pc' = "idle"
    /\ status' = "done"
    /\ result' = "done"
    /\ UNCHANGED <<dir_exists, docs, content, bgs, processed_bgs, new_bgs,
                   skipped_count, next_index, pos, readable, runs, faults, pre,
                   loaded, attempts, last, history>>

\* save_processed_bgs: a write error or a crash during json.dump leaves a prefix
SaveDumpFail ==
    /\ pc = "dump"
    /\ faults < MaxFaults
    /\ tracker_file' = TruncatedFile(processed_bgs)
    /\ pc' = "idle"
    /\ status' = "save_error"
    /\ result' = "save_failed"
    /\ faults' = faults + 1
    /\ UNCHANGED <<dir_exists, docs, content, bgs, processed_bgs, new_bgs,
                   skipped_count, next_index, pos, readable, runs, pre, loaded,
                   attempts, last>>
    /\ history' = [history EXCEPT !.io_ok = FALSE]

Next ==
    \/ MainInputMissing
    \/ \E c \in InputsAfter(content), can_read \in BOOLEAN : Start(c, can_read)
    \/ RenderOk
    \/ \E partial \in BOOLEAN : RenderFail(partial)
    \/ SaveOpen
    \/ SaveOpenFail
    \/ SaveDump
    \/ SaveDumpFail

Spec == Init /\ [][Next]_vars

(***************************************************************************)
(* The program run from emptied output directories                         *)
(***************************************************************************)

\* the environment, between two invocations: the output directory is removed
\* with everything in it, so that the next invocation starts from an empty one
EmptyOutput ==
    /\ pc = "idle"
    /\ dir_exists
    /\ dir_exists' = FALSE
    /\ docs' = EmptyDict
    /\ tracker_file' = NoFile
    /\ UNCHANGED <<pc, content, bgs, processed_bgs, new_bgs, skipped_count,
                   next_index, pos, status, runs, faults, pre, loaded, attempts,
                   result, readable, last, history>>

FreshNext == Next \/ EmptyOutput

FreshSpec == Init /\ [][FreshNext]_vars

(***************************************************************************)
(* The segmenter alone, on every text of Texts                             *)
(***************************************************************************)

SegInit ==
    /\ dir_exists = FALSE
    /\ docs = EmptyDict
    /\ tracker_file = NoFile
    /\ pc = "segment"
    /\ content \in Texts
    /\ bgs = <<>>
    /\ processed_bgs = EmptyDict
    /\ new_bgs = <<>>
    /\ skipped_count = 0
    /\ next_index = 0
    /\ pos = 0
    /\ status = "none"
    /\ result = "none"
    /\ readable = TRUE
    /\ runs = 0
    /\ faults = 0
    /\ pre = EmptyDisk
    /\ loaded = EmptyDict
    /\ attempts = <<>>
    /\ last = NoRun
    /\ history = NoHistory

\* bgs = parse_bgs_from_file(input_file)
Segment ==
    /\ pc = "segment"
    /\ bgs' = parse_bgs_from_file(content)
    /\ pc' = "segmented"
    /\ UNCHANGED <<dir_exists, docs, tracker_file, content, processed_bgs, new_bgs,
                   skipped_count, next_index, pos, status, result, readable, runs,
                   faults, pre, loaded, attempts, last, history>>

SegNext == Segment

SegSpec == SegInit /\ [][SegNext]_vars

(***************************************************************************)
(* Properties of the pipeline (checked under Spec)                         *)
(***************************************************************************)

\* the fingerprints of a list of (bg, bg_hash) pairs
Hashes(pairs) == {pairs[i][2] : i \in DOMAIN pairs}

\* render attempts before the i-th that succeeded
OkBefore(att, i) == Cardinality({j \in 1..(i - 1) : att[j].ok})

AllOk(att) == \A i \in DOMAIN att : att[i].ok

\* the latest run of the pipeline was given the input of the run before it
Rerun == last.ran /\ content = last.content

\* the second of two runs on one input finds nothing new and skips every record
NothingNew ==
    /\ new_bgs = <<>>
    /\ attempts = <<>>
    /\ skipped_count = Len(bgs)
    /\ docs = pre.docs

\* the run before the latest ended normally: it returned, its state saved
LastEnded == last.ran /\ last.result \in {"done", "all_processed", "no_bgs"}

\* the run before the latest ended normally with every new record rendered
LastClean == LastEnded /\ AllOk(last.attempts)

LastBgs == ParsedInputs[last.content]

\* the latest invocation ran the pipeline, so that pre is the disk it started on
Ran == result # "none" /\ status # "input_missing"

\* the latest invocation ran the pipeline to its end, with no failure of any kind
ThisClean == Ran /\ result = "done" /\ AllOk(attempts) /\ readable

\* C2: when the pipeline runs on A and then on A' = A plus one new record (no
\* I/O failure in either run), every record of A keeps the filename the run on A
\* gave it, no document of that run is altered, and exactly one new file is
\* created, holding the appended record.
C2_SupersetStable ==
    \A r \in RecordTexts :
        ( /\ LastClean
          /\ LastBgs # <<>>
          /\ content = last.content \o DashRule \o r
          /\ \A i \in DOMAIN LastBgs : LastBgs[i] # r
          /\ get_bg_hash(r) \notin DOMAIN loaded
          /\ ThisClean )
        => /\ \A i \in DOMAIN LastBgs :
                  processed_bgs[get_bg_hash(LastBgs[i])]
                      = pre.tracker_file.data[get_bg_hash(LastBgs[i])]
           /\ \A f \in DOMAIN pre.docs : docs[f] = pre.docs[f]
           /\ \E f \in DOMAIN docs \ DOMAIN pre.docs :
                  /\ DOMAIN docs \ DOMAIN pre.docs = {f}
                  /\ docs[f] = Document(r)
                  /\ processed_bgs[get_bg_hash(r)].filename = f

\* C3: no filename is assigned to two different fingerprints, in the tracker
\* state in memory or in the tracking file.
C3_FilenamesNeverReused ==
    /\ \A g, h \in DOMAIN processed_bgs :
           g # h => processed_bgs[g].filename # processed_bgs[h].filename
    /\ \A g, h \in DOMAIN tracker_file.data :
           g # h => tracker_file.data[g].filename # tracker_file.data[h].filename

\* C4: at most one document is generated for each distinct record text: no two
\* successful renders of one run are of the same text, and no two documents of
\* the output directory hold the same text.
C4_OneDocumentPerText ==
    /\ \A i, j \in DOMAIN attempts :
           (i < j /\ attempts[i].ok /\ attempts[j].ok)
               => attempts[i].hash # attempts[j].hash
    /\ \A f, g \in DOMAIN docs :
           (f # g /\ docs[f].complete /\ docs[g].complete)
               => docs[f].text # docs[g].text

\* C5: in a run that commits, every new record was attempted, every record that
\* rendered is in the committed state and the fingerprint of every record whose
\* rendering failed is not.
C5_FailureIsolated ==
    result = "done" =>
        /\ Len(attempts) = Len(new_bgs)
        /\ \A i \in DOMAIN attempts :
               /\ attempts[i].hash = new_bgs[i][2]
               /\ attempts[i].ok <=> (attempts[i].hash \in DOMAIN tracker_file.data)

\* no copy of the record of the j-th attempt of the run before the latest was
\* rendered in that run
FailedLast(j) ==
    \A k \in DOMAIN last.attempts :
        last.attempts[k].hash = last.attempts[j].hash => ~last.attempts[k].ok

C7_AtomicCommit ==
    pc = "idle" =>
        \/ tracker_file = pre.tracker_file
        \/ tracker_file = CompleteFile(processed_bgs)

\* the tracking file was absent, corrupt (truncated) or unreadable when the run
\* loaded it
LoadFailed == pre.tracker_file.bytes # "complete" \/ ~readable

\* every record of the input, in order, with its fingerprint
AllNew == [i \in DOMAIN bgs |-> <<bgs[i], get_bg_hash(bgs[i])>>]

\* C8: when the tracking file is absent, corrupt or unreadable, the run goes on
\* with the empty mapping: every record of the input is new, none is skipped and
\* the filenames are counted from 1.
C8_LoadFailureIsNoState ==
    (Ran /\ LoadFailed) =>
        /\ loaded = EmptyDict
        /\ new_bgs = AllNew
        /\ skipped_count = 0
        /\ \A i \in DOMAIN attempts :
               attempts[i].filename = Filename(1 + OkBefore(attempts, i))

\* C8: a run that found a truncated tracking file beside documents of an
\* earlier run and rendered a record
C8_Witness ==
    /\ Ran
    /\ pre.tracker_file.bytes = "truncated"
    /\ pre.docs # EmptyDict
    /\ \E i \in DOMAIN attempts : attempts[i].ok

\* C9: an invocation that finds no input file leaves the disk as it was: the
\* output directory is not created, no document is written and the tracking
\* file is unchanged; and no processing has started.
C9_InputMissingNoEffect ==
    status = "input_missing" => (Disk = pre /\ pc = "idle")

\* C9: the input file is missing on the first invocation
C9_Witness == status = "input_missing" /\ ~dir_exists /\ runs = 1

(***************************************************************************)
(* Properties of the segmenter (checked under SegSpec)                     *)
(***************************************************************************)

\* position i of s lies in a run of three or more dashes: three dashes in a row
\* cover it
InRule(s, i) ==
    \E a \in {i - 2, i - 1, i} :
        a >= 1 /\ a + 2 <= Len(s) /\ \A k \in a..(a + 2) : s[k] = Dash

\* s[a..b] is a segment: it holds no position of a rule and is bounded by rules
\* or the ends of the text
IsSegment(s, a, b) ==
    /\ \A k \in a..b : ~InRule(s, k)
    /\ a = 1 \/ InRule(s, a - 1)
    /\ b = Len(s) \/ InRule(s, b + 1)

\* s[a..b] trimmed: from its first to its last character that is no whitespace
Trimmed(s, a, b) ==
    LET ink == {k \in a..b : ~IsSpace(s[k])}
        lo == CHOOSE k \in ink : \A m \in ink : k <= m
        hi == CHOOSE k \in ink : \A m \in ink : k >= m
    IN  IF ink = {} THEN <<>> ELSE SubSeq(s, lo, hi)

\* the start positions of the segments of s that are not empty when trimmed
SegmentStarts(s) ==
    {a \in 1..Len(s) : \E b \in a..Len(s) :
        IsSegment(s, a, b) /\ Trimmed(s, a, b) # <<>>}

\* the segments from the given starts, in the order of the text
RECURSIVE SegmentsFrom(_, _)
SegmentsFrom(s, starts) ==
    IF starts = {} THEN <<>>
    ELSE LET a == CHOOSE x \in starts : \A y \in starts : x <= y
             b == CHOOSE y \in a..Len(s) : IsSegment(s, a, y)
         IN  <<Trimmed(s, a, b)>> \o SegmentsFrom(s, starts \ {a})

\* the non-empty segments of s delimited by runs of three or more dashes
DelimitedSegments(s) == SegmentsFrom(s, SegmentStarts(s))

\* C10: when the text holds two or more non-empty segments delimited by runs of
\* three or more dashes, parse_bgs_from_file returns exactly those segments,
\* trimmed and in the order of the text.
C10_DashSegments ==
    (pc = "segmented" /\ Len(DelimitedSegments(content)) >= 2)
        => bgs = DelimitedSegments(content)

\* C10: a text of two or more dash-delimited segments in which the numbered
\* pattern finds two or more clauses
C10_Witness ==
    /\ pc = "segmented"
    /\ Len(DelimitedSegments(content)) >= 2
    /\ Len(ClauseFindAll(content)) > 1
    /\ Len(bgs) >= 2

\* a numbered marker at position i: digits and a period at the start of a line,
\* followed by whitespace
IsMarkerAt(s, i) ==
    /\ LineStart(s, i)
    /\ MarkerEnd(s, i) # 0
    /\ MarkerEnd(s, i) <= Len(s)
    /\ IsSpace(s[MarkerEnd(s, i)])

Markers(s) == {i \in 1..Len(s) : IsMarkerAt(s, i)}

\* the text after the marker at i up to the next marker or the end of the
\* text, trimmed
MarkedBody(s, i) ==
    LET later == {j \in Markers(s) : j > i}
        next == IF later = {} THEN Len(s) + 1
                ELSE CHOOSE j \in later : \A k \in later : j <= k
    IN  Trimmed(s, MarkerEnd(s, i), next - 1)

\* the bodies of the given markers, in the order of the text
RECURSIVE MarkedBodiesFrom(_, _)
MarkedBodiesFrom(s, marks) ==
    IF marks = {} THEN <<>>
    ELSE LET i == CHOOSE x \in marks : \A y \in marks : x <= y
         IN  <<MarkedBody(s, i)>> \o MarkedBodiesFrom(s, marks \ {i})

MarkedClauses(s) == MarkedBodiesFrom(s, Markers(s))

\* C11: when the text holds no run of three or more dashes and two or more
\* numbered markers at line starts, each with a body that is not empty,
\* parse_bgs_from_file returns one clause per marker, in order: all the text
\* after the marker up to the next marker or the end of the text, second and
\* later lines included, trimmed.
C11_NumberedClauses ==
    (/\ pc = "segmented"
     /\ ~DashSearch(content, DashMin)
     /\ Cardinality(Markers(content)) >= 2
     /\ \A i \in Markers(content) : MarkedBody(content, i) # <<>>)
        => bgs = MarkedClauses(content)

\* C12: whichever heuristic fires, every element parse_bgs_from_file returns is
\* a string that is not empty and has no whitespace at either end, and a text
\* that is empty or all whitespace yields the empty sequence.
C12_NonEmptyTrimmed ==
    pc = "segmented" =>
        /\ \A i \in DOMAIN bgs :
              /\ bgs[i] # <<>>
              /\ ~IsSpace(bgs[i][1])
              /\ ~IsSpace(bgs[i][Len(bgs[i])])
        /\ (\A k \in DOMAIN content : IsSpace(content[k])) => bgs = <<>>

\* position i of s lies in a whitespace run that holds two or more newlines
InGap(s, i) ==
    /\ i \in 1..Len(s)
    /\ IsSpace(s[i])
    /\ LET run == {k \in 1..Len(s) :
                    \A m \in 1..Len(s) :
                        ((k <= m /\ m <= i) \/ (i <= m /\ m <= k)) => IsSpace(s[m])}
       IN  Cardinality({k \in run : s[k] = NL}) >= 2

\* the positions of s that lie in such runs
GapSet(s) == {i \in 1..Len(s) : InGap(s, i)}

\* s[a..b] is a maximal stretch of s outside the positions gaps
IsParagraph(s, gaps, a, b) ==
    /\ a <= b
    /\ (a..b) \cap gaps = {}
    /\ a = 1 \/ (a - 1) \in gaps
    /\ b = Len(s) \/ (b + 1) \in gaps

ParagraphStarts(s, gaps) ==
    {a \in 1..Len(s) : \E b \in a..Len(s) :
        IsParagraph(s, gaps, a, b) /\ Trimmed(s, a, b) # <<>>}

RECURSIVE ParagraphsFrom(_, _, _)
ParagraphsFrom(s, gaps, starts) ==
    IF starts = {} THEN <<>>
    ELSE LET a == CHOOSE x \in starts : \A y \in starts : x <= y
             b == CHOOSE y \in a..Len(s) : IsParagraph(s, gaps, a, y)
         IN  <<Trimmed(s, a, b)>> \o ParagraphsFrom(s, gaps, starts \ {a})

\* the non-empty paragraphs of s separated by blank lines
Paragraphs(s) ==
    LET gaps == GapSet(s)
    IN  ParagraphsFrom(s, gaps, ParagraphStarts(s, gaps))

Records(pairs) == {pairs[i] : i \in DOMAIN pairs}

\* the same distinct records, in any order
SameRecords(p, q) ==
    /\ Records(p) = Records(q)
    /\ Cardinality(Records(p)) = Len(p)
    /\ Cardinality(Records(q)) = Len(q)

\* C14: the same BG always has the same filename regardless of order: when two
\* runs, each from an empty output directory and each rendering every record,
\* had the same distinct records in different orders, every record was given
\* the same filename by both.
C14_FilenameByContent ==
    (/\ pc = "idle" /\ Ran /\ last.ran
     /\ result = "done" /\ last.result = "done"
     /\ pre = EmptyDisk /\ last.pre = EmptyDisk
     /\ AllOk(attempts) /\ AllOk(last.attempts)
     /\ SameRecords(bgs, LastBgs))
        => \A i \in DOMAIN attempts, j \in DOMAIN last.attempts :
               attempts[i].hash = last.attempts[j].hash
                   => attempts[i].filename = last.attempts[j].filename

\* the largest index a filename can hold within the bounds
MaxIndex == (MaxRecords + MaxRuns) * MaxRuns + 1

\* the index of a filename
FileIndex(filename) == CHOOSE n \in 1..MaxIndex : Filename(n) = filename

\* h1 comes before h2 in a sequence
Before(seq, h1, h2) ==
    \E i, j \in DOMAIN seq : i < j /\ seq[i] = h1 /\ seq[j] = h2

\* the filenames of a tracker state are strictly increasing along a sequence
\* of fingerprints
IncreasingAlong(state, seq) ==
    \A h1, h2 \in DOMAIN state :
        Before(seq, h1, h2)
            => FileIndex(state[h1].filename) < FileIndex(state[h2].filename)

\* every load and save of the tracking file succeeded and no input held a
\* record twice
Plain == history.io_ok /\ history.distinct

RenderedDocs == {f \in DOMAIN docs : docs[f].complete}

\* C16: at the end of a run that printed the final summary, in a history whose
\* loads and saves of the tracking file all succeeded, the total reported, the
\* number of entries of the tracker state, is the number of rendered documents
\* in the output directory.
C16_TotalIsDocuments ==
    (pc = "idle" /\ status = "done" /\ history.io_ok)
        => DictLen(processed_bgs) = Cardinality(RenderedDocs)

\* the positions of the records whose fingerprint is absent from the state as
\* loaded
NewPositions == {i \in DOMAIN bgs : get_bg_hash(bgs[i]) \notin DOMAIN loaded}

\* C17: classification is against the state as loaded at the start of the run:
\* new_bgs holds, in input order, exactly the records whose fingerprint is
\* absent from the loaded state, each with its fingerprint, and skipped_count
\* plus the length of new_bgs is the number of records.
C17_ClassifiedAgainstLoaded ==
    Ran =>
        /\ Len(new_bgs) = Cardinality(NewPositions)
        /\ \A i \in NewPositions :
              new_bgs[Cardinality({j \in NewPositions : j <= i})]
                  = <<bgs[i], get_bg_hash(bgs[i])>>
        /\ skipped_count + Len(new_bgs) = Len(bgs)

\* C17: a run on a non-empty loaded state that skipped a record and found two
\* records new
C17_Witness ==
    /\ Ran /\ pc = "render"
    /\ loaded # EmptyDict
    /\ skipped_count >= 1
    /\ Len(new_bgs) >= 2

\* the render attempts of this run that succeeded
OkAttempts == {i \in DOMAIN attempts : attempts[i].ok}

\* C18: within a run the counter is the number of entries of the loaded state
\* plus one plus the records rendered so far, a failed record leaving it where
\* it was; the k-th rendered record is given the index count(state) + k, and no
\* two rendered records of the run share a filename.
C18_CounterPerSuccess ==
    (Ran /\ bgs # <<>>) =>
        /\ next_index = DictLen(loaded) + 1 + Cardinality(OkAttempts)
        /\ \A i \in OkAttempts :
              LET k == Cardinality({j \in OkAttempts : j <= i})
              IN  attempts[i].filename = Filename(DictLen(loaded) + k)
        /\ \A i, j \in OkAttempts :
              attempts[i].filename = attempts[j].filename => i = j

\* C18: a run on a loaded state with entries in which a record failed and the
\* record after it has rendered
C18_Witness ==
    /\ Ran /\ loaded # EmptyDict
    /\ \E i \in DOMAIN attempts, j \in OkAttempts : i < j /\ ~attempts[i].ok

\* C19: in a history whose loads and saves of the tracking file all succeeded,
\* every entry of the saved tracker state names a document that is in the
\* output directory and whose body text is the record with the entry's
\* fingerprint.
C19_StateMatchesDisk ==
    (pc = "idle" /\ history.io_ok /\ tracker_file.bytes = "complete")
        => \A h \in DOMAIN tracker_file.data :
               LET filename == tracker_file.data[h].filename
               IN  /\ filename \in DOMAIN docs
                   /\ docs[filename].complete
                   /\ get_bg_hash(docs[filename].text) = h

====
